---- MODULE Spec2Model ----
(***************************************************************************)
(* A model of the fundraising keeper (x/fundraising/keeper/auction.go):    *)
(* creation, cancellation, allowed bidders, the end-of-block sweep,        *)
(* finalisation of fixed-price and batch auctions with extended rounds,    *)
(* and the release of vesting queues.                                      *)
(*                                                                         *)
(* Time is counted in whole days.  Prices are whole paying units per       *)
(* selling unit.  sdk.Dec values (rates, weights, ratios) are fixed-point  *)
(* numbers with DecUnit units to 1.                                        *)
(***************************************************************************)
EXTENDS Integers, Sequences, FiniteSets, TLC

\* ------------------------------------------------------------- bounds
MaxTime == 5
MaxAuctionId == 2
MaxAllowedBidders == 2

\* --------------------------------------------------------- parameters
CreationFee == 1
ExtendedPeriod == 1
DecUnit == 100

SellingDenom == "denomA"
PayingDenom == "denomB"
FeeDenom == "stake"
Denoms == {SellingDenom, PayingDenom, FeeDenom}

\* ---------------------------------------------------------- addresses
User(n) == <<"user", n>>
Auctioneers == {User(1), User(2)}
Bidders == {User(2), User(3)}
Users == Auctioneers \cup Bidders
FeeCollector == <<"feecollector", 0>>
SellingReserveAddress(id) == <<"SellingReserveAcc", id>>
PayingReserveAddress(id) == <<"PayingReserveAcc", id>>
VestingReserveAddress(id) == <<"VestingReserveAcc", id>>
AuctionIds == 1..MaxAuctionId
Addrs ==
    Users \cup {FeeCollector}
    \cup {SellingReserveAddress(i) : i \in AuctionIds}
    \cup {PayingReserveAddress(i) : i \in AuctionIds}
    \cup {VestingReserveAddress(i) : i \in AuctionIds}

VARIABLES
    blockTime,       \* ctx.BlockTime()
    lastAuctionId,   \* the stored last auction id
    auctions,        \* the auction store: id -> auction
    bids,            \* the bid store: id -> sequence of bids
    vestingQueues,   \* the vesting queue store: id -> sequence of queues
    lastMatchedLen,  \* the stored length of the last matched bids: id -> n
    bank,            \* bank balances: address -> denom -> amount
    result,          \* what the last call was and what it returned
    created,         \* ids in the order SetAuction first persisted them
    settled          \* per id, how many settlements have been committed

vars == <<blockTime, lastAuctionId, auctions, bids, vestingQueues,
          lastMatchedLen, bank, result, created, settled>>

\* --------------------------------------------------------------- bank
AmountOf(b, addr, denom) == b[addr][denom]

HasCoins(b, addr, denom, amt) == b[addr][denom] >= amt

SendCoins(b, from, to, denom, amt) ==
    IF from = to THEN b
    ELSE [b EXCEPT ![from][denom] = @ - amt, ![to][denom] = @ + amt]

\* ------------------------------------------------------------ helpers
Last(s) == s[Len(s)]

RECURSIVE SumSeq(_)
SumSeq(s) == IF s = <<>> THEN 0 ELSE s[1] + SumSeq(Tail(s))

Found(id) == id \in DOMAIN auctions

ShouldAuctionStarted(a, t) == a.start_time <= t

ShouldAuctionClosed(a, t) == Last(a.end_times) <= t

Min(x, y) == IF x <= y THEN x ELSE y

\* The map from bidder to maximum bid amount: built entry by entry, so a
\* later entry of the list overwrites an earlier one of the same bidder.
GetAllowedBiddersMap(a) ==
    LET l == a.allowed_bidders
        keys == {l[i].bidder : i \in 1..Len(l)}
    IN [b \in keys |->
          l[CHOOSE i \in 1..Len(l) :
               /\ l[i].bidder = b
               /\ \A j \in 1..Len(l) : l[j].bidder = b => j <= i].max_bid_amount]

\* ------------------------------------------------------------ id store
GetNextAuctionIdWithUpdateNoSet(last) == [id |-> last + 1, stored |-> last]

GetNextAuctionIdWithUpdate(last) == [id |-> last + 1, stored |-> last + 1]

\* ------------------------------------------------------------ creation
VestingSchedulesFor(end, n) ==
    IF n = 0 THEN <<>>
    ELSE IF n = 1 THEN <<[release_time |-> end + 1, weight |-> DecUnit]>>
    ELSE <<[release_time |-> end + 1, weight |-> DecUnit \div 2],
           [release_time |-> end + 2, weight |-> DecUnit - DecUnit \div 2]>>

\* The messages ValidateBasic lets through: a positive selling coin, an end
\* time after the start time, release times after the end time, weights that
\* sum to one.
BaseMsgs ==
    {m \in [auctioneer : Auctioneers,
            selling_amt : {2},
            start_price : {1},
            start_time : {1},
            end_time : {2},
            tranches : {0, 2}] : m.start_time < m.end_time}

BatchMsgs ==
    {m \in [base : BaseMsgs,
            min_bid_price : {1},
            max_extended_round : {0, 2},
            extended_round_rate : {DecUnit \div 2}] : TRUE}

\* The messages of the one funded auctioneer, with a vesting schedule.
LifeMsgs == {m \in BaseMsgs : m.auctioneer = User(1) /\ m.tranches > 0}

LifeBatchMsgs == {m \in BatchMsgs : m.base \in LifeMsgs}

NewBaseAuction(id, type, msg, status) ==
    [id |-> id,
     type |-> type,
     allowed_bidders |-> <<>>,
     auctioneer |-> msg.auctioneer,
     start_price |-> msg.start_price,
     selling_amt |-> msg.selling_amt,
     vesting_schedules |-> VestingSchedulesFor(msg.end_time, msg.tranches),
     remaining_selling_amt |-> msg.selling_amt,
     start_time |-> msg.start_time,
     end_times |-> <<msg.end_time>>,
     status |-> status,
     min_bid_price |-> 0,
     matched_price |-> 0,
     max_extended_round |-> 0,
     extended_round_rate |-> 0]

InitialStatusNotUpdated(a, t) == "StandBy"

InitialStatus(a, t) ==
    IF ShouldAuctionStarted(a, t) THEN "Started" ELSE "StandBy"

EndTimeRejected(t, end) == t > end

\* The body the two create handlers share: id allocation, the creation fee,
\* the escrow of the selling coin, SetAuction.
CreateAuction(op, msg, auction) ==
    IF EndTimeRejected(blockTime, msg.end_time)
    THEN /\ result' = [op |-> op, err |-> "ErrInvalidRequest"]
         /\ UNCHANGED <<blockTime, lastAuctionId, auctions, bids,
                        vestingQueues, lastMatchedLen, bank, created, settled>>
    ELSE
      LET next == GetNextAuctionIdWithUpdate(lastAuctionId)
          nextId == next.id
          a == [auction EXCEPT !.id = nextId,
                               !.status = InitialStatus(auction, blockTime)]
          feePaid == SendCoins(bank, msg.auctioneer, FeeCollector,
                               FeeDenom, CreationFee)
          escrowed == SendCoins(feePaid, msg.auctioneer,
                                SellingReserveAddress(nextId),
                                SellingDenom, msg.selling_amt)
      IN
      /\ lastAuctionId' = next.stored
      /\ IF ~HasCoins(bank, msg.auctioneer, FeeDenom, CreationFee)
         THEN /\ result' = [op |-> op, err |-> "ErrInsufficientFunds"]
              /\ UNCHANGED <<auctions, bids, vestingQueues, lastMatchedLen,
                             bank, created, settled>>
         ELSE IF ~HasCoins(feePaid, msg.auctioneer, SellingDenom,
                           msg.selling_amt)
         THEN /\ result' = [op |-> op, err |-> "ErrInsufficientFunds"]
              /\ bank' = feePaid
              /\ UNCHANGED <<auctions, bids, vestingQueues, lastMatchedLen,
                             created, settled>>
         ELSE /\ result' = [op |-> op, err |-> "ok"]
              /\ bank' = escrowed
              /\ auctions' = [i \in DOMAIN auctions \cup {nextId} |->
                                IF i = nextId THEN a ELSE auctions[i]]
              /\ bids' = [i \in DOMAIN bids \cup {nextId} |->
                                IF i \in DOMAIN bids THEN bids[i] ELSE <<>>]
              /\ vestingQueues' = [i \in DOMAIN vestingQueues \cup {nextId} |->
                                IF i \in DOMAIN vestingQueues
                                THEN vestingQueues[i] ELSE <<>>]
              /\ lastMatchedLen' = [i \in DOMAIN lastMatchedLen \cup {nextId} |->
                                IF i \in DOMAIN lastMatchedLen
                                THEN lastMatchedLen[i] ELSE 0]
              /\ settled' = [i \in DOMAIN settled \cup {nextId} |->
                                IF i \in DOMAIN settled THEN settled[i] ELSE 0]
              /\ created' = Append(created, nextId)
      /\ UNCHANGED blockTime

CreateFixedPriceAuction(msg) ==
    /\ lastAuctionId < MaxAuctionId
    /\ CreateAuction("CreateFixedPriceAuction", msg,
                     NewBaseAuction(0, "FixedPrice", msg, "StandBy"))

CreateBatchAuction(msg) ==
    /\ lastAuctionId < MaxAuctionId
    /\ CreateAuction("CreateBatchAuction", msg.base,
                     [NewBaseAuction(0, "Batch", msg.base, "StandBy")
                        EXCEPT !.min_bid_price = msg.min_bid_price,
                               !.matched_price = 0,
                               !.max_extended_round = msg.max_extended_round,
                               !.extended_round_rate = msg.extended_round_rate])

\* ------------------------------------------------------------- cancel
AnyCaller(a, caller) == TRUE

IsAuctioneer(a, caller) == a.auctioneer = caller

NotYetCancelled(a) == a.status # "Cancelled"

IsStandBy(a) == a.status = "StandBy"

CancelAuction(id, caller) ==
    /\ UNCHANGED <<blockTime, lastAuctionId, bids, vestingQueues,
                   lastMatchedLen, created, settled>>
    /\ IF ~Found(id)
       THEN /\ result' = [op |-> "CancelAuction", err |-> "ErrNotFound"]
            /\ UNCHANGED <<auctions, bank>>
       ELSE IF ~IsAuctioneer(auctions[id], caller)
       THEN /\ result' = [op |-> "CancelAuction", err |-> "ErrUnauthorized"]
            /\ UNCHANGED <<auctions, bank>>
       ELSE IF ~IsStandBy(auctions[id])
       THEN /\ result' = [op |-> "CancelAuction", err |-> "ErrInvalidAuctionStatus"]
            /\ UNCHANGED <<auctions, bank>>
       ELSE
         LET reserve == SellingReserveAddress(id)
             releaseAmt == AmountOf(bank, reserve, SellingDenom)
         IN
         /\ bank' = SendCoins(bank, reserve, auctions[id].auctioneer,
                              SellingDenom, releaseAmt)
         /\ auctions' = [auctions EXCEPT ![id].remaining_selling_amt = 0,
                                         ![id].status = "Cancelled"]
         /\ result' = [op |-> "CancelAuction", err |-> "ok"]

\* ----------------------------------------------------- allowed bidders
\* types.ValidateAllowedBidders(bidders, sellingAmt): every entry has a
\* positive maximum bid amount that does not exceed the selling amount, and
\* the list names no bidder twice.
ValidateAllowedBidders(list, sellingAmt) ==
    /\ \A i \in 1..Len(list) :
          /\ list[i].max_bid_amount > 0
          /\ list[i].max_bid_amount <= sellingAmt
    /\ \A i, j \in 1..Len(list) : list[i].bidder = list[j].bidder => i = j

AllowedBidder(bidder, max) == [bidder |-> bidder, max_bid_amount |-> max]

\* The lists tried: empty; one entry with a cap of zero, of the whole
\* inventory, of more than the inventory; two entries, of one bidder and of
\* two.
AllowedBidderLists ==
    {<<>>,
     <<AllowedBidder(User(2), 0)>>,
     <<AllowedBidder(User(2), 2)>>,
     <<AllowedBidder(User(2), 3)>>,
     <<AllowedBidder(User(3), 2)>>,
     <<AllowedBidder(User(2), 2), AllowedBidder(User(2), 2)>>,
     <<AllowedBidder(User(2), 2), AllowedBidder(User(3), 2)>>}

AppendAllowedBidders(old, new) == old \o new

AddAllowedBidders(id, list) ==
    /\ UNCHANGED <<blockTime, lastAuctionId, bids, vestingQueues,
                   lastMatchedLen, bank, created, settled>>
    /\ IF ~Found(id)
       THEN /\ result' = [op |-> "AddAllowedBidders", err |-> "ErrNotFound"]
            /\ UNCHANGED auctions
       ELSE IF Len(list) = 0
       THEN /\ result' = [op |-> "AddAllowedBidders", err |-> "ErrEmptyAllowedBidders"]
            /\ UNCHANGED auctions
       ELSE IF ~ValidateAllowedBidders(list, auctions[id].selling_amt)
       THEN /\ result' = [op |-> "AddAllowedBidders", err |-> "ErrInvalidMaxBidAmount"]
            /\ UNCHANGED auctions
       ELSE /\ Len(auctions[id].allowed_bidders) + Len(list)
                  <= MaxAllowedBidders
            /\ auctions' = [auctions EXCEPT ![id].allowed_bidders =
                              AppendAllowedBidders(@, list)]
            /\ result' = [op |-> "AddAllowedBidders", err |-> "ok"]

\* BaseAuction.SetMaxBidAmount: the entries of that bidder get the new cap.
SetMaxBidAmount(list, bidder, max) ==
    [i \in 1..Len(list) |->
        IF list[i].bidder = bidder
        THEN [list[i] EXCEPT !.max_bid_amount = max] ELSE list[i]]

\* An sdk.Int argument: nil, or an amount.
NilInt == [is_nil |-> TRUE, amount |-> 0]
IntOf(n) == [is_nil |-> FALSE, amount |-> n]

\* The amounts an update is asked to set: nil, zero and one above the
\* selling amount, for one bidder.
MaxBidAmountInputs(bidder) ==
    IF bidder = User(2) THEN {NilInt, IntOf(0), IntOf(3)} ELSE {}

OnlyNilRejected(max) == max.is_nil

MaxBidAmountRejected(max) == max.is_nil \/ max.amount <= 0

UpdateAllowedBidder(id, bidder, max) ==
    /\ UNCHANGED <<blockTime, lastAuctionId, bids, vestingQueues,
                   lastMatchedLen, bank, created, settled>>
    /\ IF ~Found(id)
       THEN /\ result' = [op |-> "UpdateAllowedBidder", err |-> "ErrNotFound"]
            /\ UNCHANGED auctions
       ELSE IF MaxBidAmountRejected(max)
       THEN /\ result' = [op |-> "UpdateAllowedBidder", err |-> "ErrInvalidMaxBidAmount"]
            /\ UNCHANGED auctions
       ELSE IF bidder \notin DOMAIN GetAllowedBiddersMap(auctions[id])
       THEN /\ result' = [op |-> "UpdateAllowedBidder", err |-> "ErrNotFound"]
            /\ UNCHANGED auctions
       ELSE /\ auctions' = [auctions EXCEPT ![id].allowed_bidders =
                              SetMaxBidAmount(@, bidder, max.amount)]
            /\ result' = [op |-> "UpdateAllowedBidder", err |-> "ok"]

\* ---------------------------------------------------------------- bids
\* What a bid escrows in the paying reserve: a BatchMany bid states a
\* quantity of the selling coin and escrows quantity x price; the other
\* types state the paying coin itself.
BidEscrow(b) ==
    IF b.type = "BatchMany" THEN b.coin_amt * b.price ELSE b.coin_amt

AllBids ==
    [bidder : Bidders, type : {"FixedPrice", "BatchWorth"}, price : {1},
     coin_amt : {3}]
    \cup [bidder : Bidders, type : {"BatchMany"}, price : {2}, coin_amt : {1}]

\* A fixed price auction takes bids at its start price; a batch auction
\* takes the two batch types at or above its minimum bid price.
BidInputs(a) ==
    IF a.type = "FixedPrice"
    THEN {b \in AllBids : b.type = "FixedPrice" /\ b.price = a.start_price}
    ELSE {b \in AllBids : b.type # "FixedPrice" /\ b.price >= a.min_bid_price}

PlaceBid(id, bid) ==
    /\ Found(id)
    /\ auctions[id].status = "Started"
    /\ bid \in BidInputs(auctions[id])
    /\ bid.bidder \in DOMAIN GetAllowedBiddersMap(auctions[id])
    /\ HasCoins(bank, bid.bidder, PayingDenom, BidEscrow(bid))
    /\ bank' = SendCoins(bank, bid.bidder, PayingReserveAddress(id),
                         PayingDenom, BidEscrow(bid))
    /\ bids' = [bids EXCEPT ![id] = Append(@, bid)]
    /\ result' = [op |-> "PlaceBid", err |-> "ok"]
    /\ UNCHANGED <<blockTime, lastAuctionId, auctions, vestingQueues,
                   lastMatchedLen, created, settled>>

\* ------------------------------------------------------------- clearing
RECURSIVE SumOver(_, _)
SumOver(f, S) ==
    IF S = {} THEN 0
    ELSE f[CHOOSE y \in S : TRUE] + SumOver(f, S \ {CHOOSE y \in S : TRUE})

ZeroMap == [b \in Bidders |-> 0]

CapOf(a, bidder) ==
    IF bidder \in DOMAIN GetAllowedBiddersMap(a)
    THEN GetAllowedBiddersMap(a)[bidder] ELSE 0

\* Fixed price: the bids in sequence order, each filled with
\* floor(coin / price) units, clamped to what is left of the bidder's cap
\* and of the inventory.
FixedPriceFillOf(a, b, acc) ==
    IF b.bidder \in DOMAIN GetAllowedBiddersMap(a)
    THEN Min(Min(b.coin_amt \div a.start_price,
                 CapOf(a, b.bidder) - acc.allocation_map[b.bidder]),
             acc.remaining)
    ELSE 0

Filled(acc, bidder, got) ==
    IF got <= 0 THEN acc
    ELSE [acc EXCEPT !.allocation_map[bidder] = @ + got,
                     !.remaining = @ - got,
                     !.matched_len = @ + 1]

RECURSIVE FixedPriceFill(_, _, _, _)
FixedPriceFill(a, bs, i, acc) ==
    IF i > Len(bs) THEN acc
    ELSE FixedPriceFill(a, bs, i + 1,
           Filled(acc, bs[i].bidder, FixedPriceFillOf(a, bs[i], acc)))

FixedPriceMatchingOf(a, acc) ==
    [matched_price |-> a.start_price,
     allocation_map |-> acc.allocation_map,
     refund_map |-> ZeroMap,
     matched_len |-> acc.matched_len,
     total_matched_amt |-> a.selling_amt - acc.remaining]

FixedPriceMatchingInfo(a, bs) ==
    FixedPriceMatchingOf(a, FixedPriceFill(a, bs, 1,
        [allocation_map |-> ZeroMap, remaining |-> a.selling_amt,
         matched_len |-> 0]))

\* Batch: what one bid demands at price p.
BidQuantity(b, p) ==
    IF b.type = "BatchMany" THEN b.coin_amt ELSE b.coin_amt \div p

RECURSIVE BidderDemand(_, _, _, _)
BidderDemand(bs, bidder, p, i) ==
    IF i > Len(bs) THEN 0
    ELSE (IF bs[i].bidder = bidder /\ bs[i].price >= p
          THEN BidQuantity(bs[i], p) ELSE 0)
         + BidderDemand(bs, bidder, p, i + 1)

ClampedDemand(a, bs, bidder, p) ==
    Min(BidderDemand(bs, bidder, p, 1), CapOf(a, bidder))

TotalDemand(a, bs, p) ==
    SumOver([b \in Bidders |-> ClampedDemand(a, bs, b, p)], Bidders)

CandidatePrices(a, bs) ==
    {bs[i].price : i \in {j \in 1..Len(bs) : bs[j].price >= a.min_bid_price}}

\* The clearing price: the largest candidate whose demand the inventory
\* covers; 0 when there is none.
LargestOf(ok) ==
    IF ok = {} THEN 0 ELSE CHOOSE p \in ok : \A q \in ok : q <= p

ClearingPrice(a, bs) ==
    LargestOf({p \in CandidatePrices(a, bs) :
                  TotalDemand(a, bs, p) <= a.selling_amt})

\* What bid i contributes at price p: bids count in sequence order until
\* the bidder's clamped demand is reached.
RECURSIVE Contribution(_, _, _, _)
Contribution(a, bs, p, i) ==
    IF bs[i].price >= p
    THEN Min(BidQuantity(bs[i], p),
             CapOf(a, bs[i].bidder)
               - SumSeq([j \in 1..(i - 1) |->
                           IF bs[j].bidder = bs[i].bidder
                           THEN Contribution(a, bs, p, j) ELSE 0]))
    ELSE 0

EscrowedBy(bs, bidder) ==
    SumSeq([i \in 1..Len(bs) |->
              IF bs[i].bidder = bidder THEN BidEscrow(bs[i]) ELSE 0])

AllocationAt(a, bs, p) ==
    [b \in Bidders |-> IF p = 0 THEN 0 ELSE ClampedDemand(a, bs, b, p)]

BatchMatchingOf(a, bs, p, alloc) ==
    [matched_price |-> p,
     allocation_map |-> alloc,
     refund_map |-> [b \in Bidders |-> EscrowedBy(bs, b) - alloc[b] * p],
     matched_len |-> IF p = 0 THEN 0
                     ELSE Cardinality({i \in 1..Len(bs) :
                                         Contribution(a, bs, p, i) > 0}),
     total_matched_amt |-> SumOver(alloc, Bidders)]

BatchMatchingAt(a, bs, p) ==
    BatchMatchingOf(a, bs, p, AllocationAt(a, bs, p))

BatchMatchingInfo(a, bs) == BatchMatchingAt(a, bs, ClearingPrice(a, bs))

\* -------------------------------------------------- the store in a call
\* A handler works on the store and the bank; st.panic says that it
\* panicked, and then none of its writes is committed.
Store ==
    [auctions |-> auctions, bank |-> bank, vestingQueues |-> vestingQueues,
     lastMatchedLen |-> lastMatchedLen, settled |-> settled, panic |-> FALSE]

Panic(st) == [st EXCEPT !.panic = TRUE]

\* CalculateFixedPriceAllocation / CalculateBatchAllocation: the matching
\* info, and what the calculation persists.
CalculateFixedPriceAllocation(st, id, mInfo) ==
    [st EXCEPT !.auctions[id].remaining_selling_amt =
                   st.auctions[id].selling_amt - mInfo.total_matched_amt]

CalculateBatchAllocation(st, id, mInfo) ==
    [st EXCEPT !.lastMatchedLen[id] = mInfo.matched_len,
               !.auctions[id].matched_price = mInfo.matched_price,
               !.auctions[id].remaining_selling_amt =
                   st.auctions[id].selling_amt - mInfo.total_matched_amt]

Pick(S) == CHOOSE y \in S : TRUE

RECURSIVE PayOut(_, _, _, _, _)
PayOut(b, from, denom, map, S) ==
    IF S = {} THEN b
    ELSE PayOut(SendCoins(b, from, Pick(S), denom, map[Pick(S)]), from,
                denom, map, S \ {Pick(S)})

\* bankKeeper.InputOutputCoins with one input per output, all from one
\* address: it fails when the address does not hold the sum.
InputOutputCoins(st, from, denom, map) ==
    IF ~HasCoins(st.bank, from, denom, SumOver(map, DOMAIN map))
    THEN Panic(st)
    ELSE [st EXCEPT !.bank = PayOut(st.bank, from, denom, map, DOMAIN map)]

AllocateSellingCoin(st, id, mInfo) ==
    IF st.panic THEN st
    ELSE InputOutputCoins(st, SellingReserveAddress(id), SellingDenom,
                          mInfo.allocation_map)

ReleaseNothing(st, id) == st

ReleaseRemainingSellingCoin(st, id) ==
    IF st.panic THEN st
    ELSE [st EXCEPT !.bank = SendCoins(st.bank, SellingReserveAddress(id),
                                st.auctions[id].auctioneer, SellingDenom,
                                AmountOf(st.bank, SellingReserveAddress(id),
                                         SellingDenom))]

RefundPayingCoin(st, id, mInfo) ==
    IF st.panic THEN st
    ELSE InputOutputCoins(st, PayingReserveAddress(id), PayingDenom,
                          mInfo.refund_map)

\* ApplyVestingSchedules: the paying reserve moves to the vesting reserve,
\* one queue per schedule (floor(reserve x weight), the last one takes the
\* rest), status Vesting; with no schedule the auctioneer is paid at once
\* and the status is Finished.
VestingAmounts(total, schedules) ==
    [i \in 1..Len(schedules) |->
        IF i < Len(schedules)
        THEN (total * schedules[i].weight) \div DecUnit
        ELSE total - SumSeq([j \in 1..(Len(schedules) - 1) |->
                               (total * schedules[j].weight) \div DecUnit])]

NewVestingQueues(schedules, amts) ==
    [i \in 1..Len(schedules) |->
        [release_time |-> schedules[i].release_time,
         paying_amt |-> amts[i],
         released |-> FALSE]]

ApplyVestingOf(st, id, a, reserveAmt) ==
    IF Len(a.vesting_schedules) = 0
    THEN [st EXCEPT !.bank = SendCoins(st.bank, PayingReserveAddress(id),
                                a.auctioneer, PayingDenom, reserveAmt),
                    !.auctions[id].status = "Finished",
                    !.settled[id] = @ + 1]
    ELSE [st EXCEPT !.bank = SendCoins(st.bank, PayingReserveAddress(id),
                                VestingReserveAddress(id), PayingDenom,
                                reserveAmt),
                    !.vestingQueues[id] =
                        NewVestingQueues(a.vesting_schedules,
                            VestingAmounts(reserveAmt, a.vesting_schedules)),
                    !.auctions[id].status = "Vesting",
                    !.settled[id] = @ + 1]

ApplyVestingSchedules(st, id) ==
    IF st.panic THEN st
    ELSE ApplyVestingOf(st, id, st.auctions[id],
             AmountOf(st.bank, PayingReserveAddress(id), PayingDenom))

\* ------------------------------------------------------------- vesting
ShouldRelease(vq, t) == vq.release_time <= t /\ ~vq.released

ReleaseQueueNoMark(st, id, vq, i) ==
    [st EXCEPT !.bank = SendCoins(st.bank, VestingReserveAddress(id),
                            st.auctions[id].auctioneer, PayingDenom,
                            vq.paying_amt)]

ReleaseQueue(st, id, vq, i) ==
    [st EXCEPT !.bank = SendCoins(st.bank, VestingReserveAddress(id),
                            st.auctions[id].auctioneer, PayingDenom,
                            vq.paying_amt),
               !.vestingQueues[id][i].released = TRUE]

FinishedAtAny(st, id, i, vqsLen) ==
    [st EXCEPT !.auctions[id].status = "Finished"]

FinishedIfLast(st, id, i, vqsLen) ==
    IF i = vqsLen THEN [st EXCEPT !.auctions[id].status = "Finished"] ELSE st

RECURSIVE VestingLoop(_, _, _, _, _)
VestingLoop(st, id, t, vqs, i) ==
    IF st.panic \/ i > Len(vqs) THEN st
    ELSE IF ~ShouldRelease(vqs[i], t)
    THEN VestingLoop(st, id, t, vqs, i + 1)
    ELSE IF ~HasCoins(st.bank, VestingReserveAddress(id), PayingDenom,
                      vqs[i].paying_amt)
    THEN Panic(st)
    ELSE VestingLoop(FinishedIfLast(ReleaseQueue(st, id, vqs[i], i), id,
                                    i, Len(vqs)),
                     id, t, vqs, i + 1)

AllocateVestingPayingCoin(st, id, t) ==
    VestingLoop(st, id, t, st.vestingQueues[id], 1)

\* --------------------------------------------------------- finalisation
ExtendRound(st, id, t) ==
    [st EXCEPT !.auctions[id].end_times = Append(@, t + ExtendedPeriod)]

SettleFixedPrice(st, id, mInfo) ==
    ApplyVestingSchedules(
      ReleaseRemainingSellingCoin(
        AllocateSellingCoin(CalculateFixedPriceAllocation(st, id, mInfo),
                            id, mInfo),
        id),
      id)

FinishFixedPriceAuction(st, id) ==
    SettleFixedPrice(st, id,
                     FixedPriceMatchingInfo(st.auctions[id], bids[id]))

\* Allocate, release the remainder, refund, apply the vesting schedules:
\* each panics on an error.
SettleBatch(st, id, mInfo) ==
    ApplyVestingSchedules(
      RefundPayingCoin(
        ReleaseRemainingSellingCoin(AllocateSellingCoin(st, id, mInfo), id),
        id, mInfo),
      id)

\* sdk.Dec.Quo: the quotient rounded half to even at the last digit.
Rounded(q, r, y) ==
    IF 2 * r > y THEN q + 1
    ELSE IF 2 * r = y /\ q % 2 = 1 THEN q + 1
    ELSE q

DecQuo(x, y) == Rounded((x * DecUnit) \div y, (x * DecUnit) % y, y)

\* 1 - (CurrentMatchedLenDec / LastMatchedLenDec)
MatchedLenDiff(currLen, lastLen) == DecUnit - DecQuo(currLen, lastLen)

NeverNeedsExtendedRound(diff, rate) == FALSE

NeedsExtendedRound(diff, rate) == diff >= rate

\* The end of FinishBatchAuction, once the last matched length is read and
\* the allocation calculated.
ExtendOrSettle(st, id, t, lastLen, mInfo) ==
    IF lastLen = 0 THEN ExtendRound(st, id, t)
    ELSE IF NeedsExtendedRound(MatchedLenDiff(mInfo.matched_len, lastLen),
                               st.auctions[id].extended_round_rate)
    THEN ExtendRound(st, id, t)
    ELSE SettleBatch(st, id, mInfo)

\* FinishBatchAuction from the read of the last matched length on.
AfterMaxRoundCheck(st, id, t, mInfo) ==
    IF st.panic THEN st
    ELSE ExtendOrSettle(CalculateBatchAllocation(st, id, mInfo), id, t,
                        st.lastMatchedLen[id], mInfo)

MaxRoundReached(a) == a.max_extended_round + 1 = Len(a.end_times)

FinishBatchWith(st, id, t, mInfo) ==
    AfterMaxRoundCheck(
      IF MaxRoundReached(st.auctions[id])
      THEN SettleBatch(CalculateBatchAllocation(st, id, mInfo), id, mInfo)
      ELSE st,
      id, t, mInfo)

FinishBatchAuction(st, id, t) ==
    FinishBatchWith(st, id, t, BatchMatchingInfo(st.auctions[id], bids[id]))

\* ---------------------------------------------------------------- sweep
SweepAuctionOf(st, id, t, a) ==
    IF a.status = "StandBy"
    THEN IF ShouldAuctionStarted(a, t)
         THEN [st EXCEPT !.auctions[id].status = "Started"] ELSE st
    ELSE IF a.status = "Started"
    THEN IF ~ShouldAuctionClosed(a, t) THEN st
         ELSE IF a.type = "FixedPrice"
         THEN FinishFixedPriceAuction(st, id)
         ELSE FinishBatchAuction(st, id, t)
    ELSE IF a.status = "Vesting"
    THEN AllocateVestingPayingCoin(st, id, t)
    ELSE st

SweepAuction(st, id, t) == SweepAuctionOf(st, id, t, st.auctions[id])

RECURSIVE SweepFrom(_, _, _)
SweepFrom(st, id, t) ==
    IF st.panic \/ id > MaxAuctionId THEN st
    ELSE IF id \in DOMAIN st.auctions
    THEN SweepFrom(SweepAuction(st, id, t), id + 1, t)
    ELSE SweepFrom(st, id + 1, t)

\* The end of a block: the sweep at the block's time; the next block begins
\* a day later.  A panic commits nothing of the block.
EndBlocker ==
    /\ blockTime < MaxTime
    /\ \E st \in {SweepFrom(Store, 1, blockTime)} :
          IF st.panic
          THEN /\ result' = [op |-> "EndBlocker", err |-> "panic"]
               /\ UNCHANGED <<blockTime, auctions, bank, vestingQueues,
                              lastMatchedLen, settled>>
          ELSE /\ result' = [op |-> "EndBlocker", err |-> "ok"]
               /\ blockTime' = blockTime + 1
               /\ auctions' = st.auctions
               /\ bank' = st.bank
               /\ vestingQueues' = st.vestingQueues
               /\ lastMatchedLen' = st.lastMatchedLen
               /\ settled' = st.settled
    /\ UNCHANGED <<lastAuctionId, bids, created>>

\* ----------------------------------------------------------------- spec
\* What the accounts hold at genesis: the first auctioneer the selling coin
\* and the fees given, the second auctioneer one fee and no selling coin,
\* every bidder three paying coins.
Genesis(sellingAmt, fees) ==
    /\ blockTime = 0
    /\ lastAuctionId = 0
    /\ auctions = <<>>
    /\ bids = <<>>
    /\ vestingQueues = <<>>
    /\ lastMatchedLen = <<>>
    /\ bank = [a \in Addrs |-> [d \in Denoms |->
                 IF a = User(1) /\ d = SellingDenom THEN sellingAmt
                 ELSE IF a = User(1) /\ d = FeeDenom THEN fees * CreationFee
                 ELSE IF a = User(2) /\ d = FeeDenom THEN CreationFee
                 ELSE IF a \in Bidders /\ d = PayingDenom THEN 3
                 ELSE 0]]
    /\ result = [op |-> "Init", err |-> "ok"]
    /\ created = <<>>
    /\ settled = <<>>

\* One auction's worth of funds: the life of an auction.
Init == Genesis(2, 1)

\* Funds for several auctions of both auctioneers, and no bidding: creation,
\* the id counter, cancellation.
InitCreate == Genesis(4, 2)


\* The auction ids that requests name: those of the stored auctions, and
\* the next id, which names no auction.
RequestIds == DOMAIN auctions \cup {lastAuctionId + 1}

Next ==
    \/ EndBlocker
    \/ \E msg \in LifeMsgs : CreateFixedPriceAuction(msg)
    \/ \E msg \in LifeBatchMsgs : CreateBatchAuction(msg)
    \/ \E id \in RequestIds, caller \in Auctioneers : CancelAuction(id, caller)
    \/ \E id \in RequestIds, list \in AllowedBidderLists :
          AddAllowedBidders(id, list)
    \/ \E id \in RequestIds, bidder \in Bidders :
          \E max \in MaxBidAmountInputs(bidder) :
             UpdateAllowedBidder(id, bidder, max)
    \/ \E id \in RequestIds, bid \in AllBids : PlaceBid(id, bid)

Spec == Init /\ [][Next]_vars

NextCreate ==
    \/ EndBlocker
    \/ \E msg \in BaseMsgs : CreateFixedPriceAuction(msg)
    \/ \E msg \in BatchMsgs : CreateBatchAuction(msg)
    \/ \E id \in RequestIds, caller \in Auctioneers : CancelAuction(id, caller)

SpecCreate == InitCreate /\ [][NextCreate]_vars

\* --------------------------------------------------------- properties
\* A step that ran the named operation: every operation records itself.
Ran(op) == result'.op = op

\* C1: no batch auction ever has more than 1 + max_extended_round end
\* times, whatever the sweep has done to it; with max_extended_round = 0
\* the end times stay of length 1.
C1_EndTimesBounded ==
    \A id \in DOMAIN auctions :
       auctions[id].type = "Batch" =>
          Len(auctions[id].end_times) <= 1 + auctions[id].max_extended_round

\* A batch auction due for FinishBatchAuction with every round used.
DueAtMaxRound(id) ==
    /\ auctions[id].type = "Batch"
    /\ auctions[id].status = "Started"
    /\ ShouldAuctionClosed(auctions[id], blockTime)
    /\ MaxRoundReached(auctions[id])

\* C2: a sweep that finds a batch auction due with max_extended_round + 1
\* end times settles it exactly once and appends no end time; and no
\* auction is ever settled more than once.
C2_MaxRoundSettlesOnce ==
    [][\A id \in DOMAIN auctions :
          /\ (Ran("EndBlocker") /\ DueAtMaxRound(id)) =>
                /\ result'.err = "ok"
                /\ settled'[id] = settled[id] + 1
                /\ auctions'[id].end_times = auctions[id].end_times
          /\ id \in DOMAIN settled' => settled'[id] <= 1]_vars

\* C3: a CancelAuction that succeeds found the auction in StandBy and was
\* called by its auctioneer; it leaves the auction Cancelled with nothing
\* remaining to sell, the selling reserve empty, and the auctioneer richer
\* by exactly what the reserve held.
C3_CancelSucceeds ==
    [][\A id \in RequestIds, caller \in Auctioneers :
          (CancelAuction(id, caller) /\ result'.err = "ok") =>
             /\ Found(id)
             /\ auctions[id].status = "StandBy"
             /\ caller = auctions[id].auctioneer
             /\ auctions'[id].status = "Cancelled"
             /\ auctions'[id].remaining_selling_amt = 0
             /\ AmountOf(bank', SellingReserveAddress(id), SellingDenom) = 0
             /\ AmountOf(bank', caller, SellingDenom) =
                   AmountOf(bank, caller, SellingDenom)
                   + AmountOf(bank, SellingReserveAddress(id), SellingDenom)]_vars

\* C3 happens: a cancel has succeeded, the auction is Cancelled and its
\* selling coin is back with the auctioneer.
C3_Witness ==
    /\ result = [op |-> "CancelAuction", err |-> "ok"]
    /\ \E id \in DOMAIN auctions :
          /\ auctions[id].status = "Cancelled"
          /\ AmountOf(bank, SellingReserveAddress(id), SellingDenom) = 0
          /\ AmountOf(bank, auctions[id].auctioneer, SellingDenom)
                >= auctions[id].selling_amt

\* C4: CancelAuction fails with NotFound for an unknown id, Unauthorized
\* for a caller who is not the auctioneer, InvalidAuctionStatus for the
\* auctioneer of an auction that is not StandBy; a failed cancel changes no
\* auction and no balance.
C4_CancelFails ==
    [][\A id \in RequestIds, caller \in Auctioneers :
          CancelAuction(id, caller) =>
             /\ ~Found(id) => result'.err = "ErrNotFound"
             /\ (Found(id) /\ caller # auctions[id].auctioneer) =>
                   result'.err = "ErrUnauthorized"
             /\ (Found(id) /\ caller = auctions[id].auctioneer
                   /\ auctions[id].status # "StandBy") =>
                   result'.err = "ErrInvalidAuctionStatus"
             /\ result'.err # "ok" => (auctions' = auctions /\ bank' = bank)]_vars

\* C4 happens: the auctioneer's cancel of an auction already under way has
\* been refused.
C4_Witness ==
    /\ result = [op |-> "CancelAuction", err |-> "ErrInvalidAuctionStatus"]
    /\ \E id \in DOMAIN auctions :
          auctions[id].status \in {"Started", "Vesting", "Finished"}

\* The requests that are well formed for the auction: a list that passes
\* validation, a maximum bid amount that is a positive number.
WellFormedLists(a) ==
    {l \in AllowedBidderLists :
        Len(l) > 0 /\ ValidateAllowedBidders(l, a.selling_amt)}

WellFormedMaxBidAmounts(bidder) ==
    {m \in MaxBidAmountInputs(bidder) : ~MaxBidAmountRejected(m)}

\* C5: on a Cancelled auction, CancelAuction by its auctioneer and every
\* well-formed AddAllowedBidders and UpdateAllowedBidder fail with
\* InvalidAuctionStatus and leave the auction as it was.
C5_CancelledRejectsAll ==
    [][\A id \in DOMAIN auctions :
          (/\ auctions[id].status = "Cancelled"
           /\ \/ CancelAuction(id, auctions[id].auctioneer)
              \/ \E list \in WellFormedLists(auctions[id]) :
                    AddAllowedBidders(id, list)
              \/ \E bidder \in Bidders :
                    \E max \in WellFormedMaxBidAmounts(bidder) :
                       UpdateAllowedBidder(id, bidder, max))
          => /\ result'.err = "ErrInvalidAuctionStatus"
             /\ auctions'[id] = auctions[id]]_vars

RanCreate == Ran("CreateFixedPriceAuction") \/ Ran("CreateBatchAuction")

\* C6: a create whose end time is at or before the block time, the block
\* time itself included, fails with InvalidRequest; no auction is persisted
\* with its first end time at or before the block time of its creation.
C6_EndTimeNotAfterBlockTimeRejected ==
    [][/\ \A msg \in BaseMsgs :
             (CreateFixedPriceAuction(msg) /\ msg.end_time <= blockTime) =>
                result'.err = "ErrInvalidRequest"
       /\ \A msg \in BatchMsgs :
             (CreateBatchAuction(msg) /\ msg.base.end_time <= blockTime) =>
                result'.err = "ErrInvalidRequest"
       /\ \A id \in DOMAIN auctions' \ DOMAIN auctions :
             auctions'[id].end_times[1] > blockTime]_vars

\* C7: a create that returns an error persists no auction, leaves the
\* last auction id as it was and moves no coin.
C7_FailedCreateChangesNothing ==
    [][(RanCreate /\ result'.err # "ok") =>
          /\ auctions' = auctions
          /\ lastAuctionId' = lastAuctionId
          /\ bank' = bank]_vars

\* C8: the last auction id never decreases; the persisted auctions, in the
\* order of their creation, have strictly increasing ids, so no two share
\* an id and none replaces another.
C8_IdsMonotone ==
    [][/\ lastAuctionId' >= lastAuctionId
       /\ \A i, j \in 1..Len(created') :
             i < j => created'[i] < created'[j]
       /\ \A i \in 1..Len(created') : created'[i] <= lastAuctionId'
       /\ Cardinality(DOMAIN auctions') = Len(created')
       /\ \A id \in DOMAIN auctions : id \in DOMAIN auctions']_vars

\* C8 happens: two auctions have been persisted, one after the other.
C8_Witness ==
    /\ Len(created) = 2
    /\ created[1] < created[2]
    /\ DOMAIN auctions = {created[1], created[2]}

\* What a successful create of the message leaves: the auction under the
\* next id, and the selling coin in the reserve of that id.
CreatedAs(msg, type) ==
    /\ lastAuctionId + 1 \in DOMAIN auctions' \ DOMAIN auctions
    /\ auctions'[lastAuctionId + 1].id = lastAuctionId + 1
    /\ auctions'[lastAuctionId + 1].type = type
    /\ auctions'[lastAuctionId + 1].allowed_bidders = <<>>
    /\ auctions'[lastAuctionId + 1].end_times = <<msg.end_time>>
    /\ auctions'[lastAuctionId + 1].remaining_selling_amt = msg.selling_amt
    /\ auctions'[lastAuctionId + 1].status =
          IF blockTime >= msg.start_time THEN "Started" ELSE "StandBy"
    /\ AmountOf(bank', SellingReserveAddress(lastAuctionId + 1), SellingDenom) =
          AmountOf(bank, SellingReserveAddress(lastAuctionId + 1), SellingDenom)
          + msg.selling_amt
    /\ AmountOf(bank', msg.auctioneer, SellingDenom) =
          AmountOf(bank, msg.auctioneer, SellingDenom) - msg.selling_amt

\* C9: a successful create persists the auction under the previous last id
\* plus one, with no allowed bidder, the one end time of the message, the
\* whole selling coin remaining, a zero matched price for a batch auction,
\* status Started exactly when the block time has reached the start time
\* and StandBy otherwise; the selling coin has moved from the auctioneer to
\* the selling reserve of that id.
C9_CreatePersists ==
    [][/\ \A msg \in BaseMsgs :
             (CreateFixedPriceAuction(msg) /\ result'.err = "ok") =>
                CreatedAs(msg, "FixedPrice")
       /\ \A msg \in BatchMsgs :
             (CreateBatchAuction(msg) /\ result'.err = "ok") =>
                /\ CreatedAs(msg.base, "Batch")
                /\ auctions'[lastAuctionId + 1].matched_price = 0]_vars

\* C9 happens: a batch auction has just been created after its start time,
\* so it is Started, and its reserve holds the selling coin.
C9_Witness ==
    /\ result = [op |-> "CreateBatchAuction", err |-> "ok"]
    /\ lastAuctionId \in DOMAIN auctions
    /\ auctions[lastAuctionId].status = "Started"
    /\ blockTime >= auctions[lastAuctionId].start_time
    /\ AmountOf(bank, SellingReserveAddress(lastAuctionId), SellingDenom) =
          auctions[lastAuctionId].selling_amt

\* C10: no bidder appears more than once in the allowed bidders of an
\* auction.
C10_NoDuplicateBidder ==
    \A id \in DOMAIN auctions :
       \A i, j \in 1..Len(auctions[id].allowed_bidders) :
          auctions[id].allowed_bidders[i].bidder =
             auctions[id].allowed_bidders[j].bidder => i = j

\* C11: every maximum bid amount stored in the allowed bidders of an
\* auction is positive and at most the auction's selling amount.
C11_MaxBidAmountBounded ==
    \A id \in DOMAIN auctions :
       \A i \in 1..Len(auctions[id].allowed_bidders) :
          /\ auctions[id].allowed_bidders[i].max_bid_amount > 0
          /\ auctions[id].allowed_bidders[i].max_bid_amount
                <= auctions[id].selling_amt

AllReleased(id) ==
    \A i \in 1..Len(vestingQueues[id]) : vestingQueues[id][i].released

Settles(id) ==
    /\ Ran("EndBlocker")
    /\ auctions[id].status = "Started"
    /\ auctions'[id].status # "Started"

\* C13: when a fixed price auction is settled, every bidder gets back from
\* the paying reserve what they escrowed beyond the price of the units
\* allocated to them.
C13_FixedPriceRefunds ==
    [][\A id \in DOMAIN auctions :
          (Settles(id) /\ auctions[id].type = "FixedPrice") =>
             \A b \in Bidders :
                AmountOf(bank', b, PayingDenom) =
                   AmountOf(bank, b, PayingDenom)
                   + EscrowedBy(bids[id], b)
                   - FixedPriceMatchingInfo(auctions[id], bids[id])
                        .allocation_map[b] * auctions[id].start_price]_vars

\* The matching info the settlement of the auction works with.
MatchingInfoOf(id) ==
    IF auctions[id].type = "FixedPrice"
    THEN FixedPriceMatchingInfo(auctions[id], bids[id])
    ELSE BatchMatchingInfo(auctions[id], bids[id])

\* What the step adds to the address's balance of the selling coin.
SellingGain(addr) ==
    AmountOf(bank', addr, SellingDenom) - AmountOf(bank, addr, SellingDenom)

\* C14: a settlement leaves the selling reserve empty; every bidder has
\* received their allocation, the auctioneer the rest, and together that
\* is what the selling reserve held.
C14_SellingReserveConserved ==
    [][\A id \in DOMAIN auctions :
          Settles(id) =>
             /\ AmountOf(bank', SellingReserveAddress(id), SellingDenom) = 0
             /\ \A b \in Bidders :
                   SellingGain(b) = MatchingInfoOf(id).allocation_map[b]
             /\ SellingGain(auctions[id].auctioneer) =
                   AmountOf(bank, SellingReserveAddress(id), SellingDenom)
                   - MatchingInfoOf(id).total_matched_amt
             /\ SumOver([b \in Bidders |-> SellingGain(b)], Bidders)
                   + SellingGain(auctions[id].auctioneer) =
                   AmountOf(bank, SellingReserveAddress(id), SellingDenom)]_vars

\* C14 happens: the latest sweep has settled an auction, a bidder holds
\* an allocation, the auctioneer the remainder, the reserve nothing.
C14_Witness ==
    /\ result = [op |-> "EndBlocker", err |-> "ok"]
    /\ \E id \in DOMAIN auctions :
          /\ auctions[id].status = "Vesting"
          /\ settled[id] = 1
          /\ Last(auctions[id].end_times) = blockTime - 1
          /\ AmountOf(bank, SellingReserveAddress(id), SellingDenom) = 0
          /\ AmountOf(bank, auctions[id].auctioneer, SellingDenom) > 0
          /\ \E b \in Bidders : AmountOf(bank, b, SellingDenom) > 0

\* The store after one sweep at the block time.
SweptOnce == SweepFrom(Store, 1, blockTime)

SweptAgain(once) == SweepFrom(once, 1, blockTime)

\* C15: a second sweep at the same block time changes nothing of what the
\* first one left.
C15_SweepIdempotent ==
    \A once \in {SweptOnce} : ~once.panic => SweptAgain(once) = once

\* The status changes the lifecycle has.
StatusMoves ==
    {<<"StandBy", "Started">>, <<"StandBy", "Cancelled">>,
     <<"Started", "Vesting">>, <<"Started", "Finished">>,
     <<"Vesting", "Finished">>}

ReserveAddresses(id) ==
    {SellingReserveAddress(id), PayingReserveAddress(id),
     VestingReserveAddress(id)}

\* C16: the status of an auction changes only forward, from StandBy to
\* Started or Cancelled, from Started to Vesting or Finished, from Vesting
\* to Finished; a Finished or Cancelled auction keeps its status, its end
\* times and the balances of its reserves.
C16_StatusMovesForward ==
    [][\A id \in DOMAIN auctions :
          /\ auctions'[id].status # auctions[id].status =>
                <<auctions[id].status, auctions'[id].status>> \in StatusMoves
          /\ auctions[id].status \in {"Finished", "Cancelled"} =>
                /\ auctions'[id].status = auctions[id].status
                /\ auctions'[id].end_times = auctions[id].end_times
                /\ \A addr \in ReserveAddresses(id) :
                      bank'[addr] = bank[addr]]_vars

\* C16 happens: an auction with bids is Finished, and its auctioneer has
\* since tried to cancel it.
C16_Witness ==
    /\ result.op = "CancelAuction"
    /\ \E id \in DOMAIN auctions :
          /\ auctions[id].status = "Finished"
          /\ Len(bids[id]) > 0
          /\ Len(vestingQueues[id]) = 2

\* A batch auction due for FinishBatchAuction with rounds left.
DueBelowMaxRound(id) ==
    /\ auctions[id].type = "Batch"
    /\ auctions[id].status = "Started"
    /\ ShouldAuctionClosed(auctions[id], blockTime)
    /\ Len(auctions[id].end_times) < auctions[id].max_extended_round + 1

\* 1 - curr / last >= rate, in whole numbers; rate is in units of 1 / DecUnit.
DropsByRate(curr, last, rate) == (last - curr) * DecUnit >= rate * last

\* The round is extended: one more end time, an extended period after the
\* block time, and the auction's coins stay where they are.
Extended(id) ==
    /\ auctions'[id].end_times =
          Append(auctions[id].end_times, blockTime + ExtendedPeriod)
    /\ auctions'[id].status = "Started"
    /\ settled'[id] = settled[id]
    /\ bank' = bank

\* The auction is settled: allocated, the remainder released, the bidders
\* refunded, the vesting queues made, the end times as they were.
SettledNow(id) ==
    /\ auctions'[id].end_times = auctions[id].end_times
    /\ auctions'[id].status \in {"Vesting", "Finished"}
    /\ settled'[id] = settled[id] + 1
    /\ AmountOf(bank', SellingReserveAddress(id), SellingDenom) = 0
    /\ \A b \in Bidders :
          /\ SellingGain(b) = MatchingInfoOf(id).allocation_map[b]
          /\ AmountOf(bank', b, PayingDenom) =
                AmountOf(bank, b, PayingDenom) + MatchingInfoOf(id).refund_map[b]
    /\ Len(vestingQueues'[id]) = Len(auctions[id].vesting_schedules)

\* C17: a sweep that finds a batch auction due with rounds left extends
\* the round when the last matched length is 0 or the matched length has
\* dropped by the extended round rate or more, and settles the auction
\* otherwise.
C17_ExtendsOrSettles ==
    [][\A id \in DOMAIN auctions :
          (Ran("EndBlocker") /\ DueBelowMaxRound(id)) =>
             /\ result'.err = "ok"
             /\ IF \/ lastMatchedLen[id] = 0
                   \/ DropsByRate(MatchingInfoOf(id).matched_len,
                                  lastMatchedLen[id],
                                  auctions[id].extended_round_rate)
                THEN Extended(id)
                ELSE SettledNow(id)]_vars

\* C17 happens: the latest sweep has settled a batch auction in an
\* extended round that was not its last, with a matched bid.
C17_Witness ==
    /\ result = [op |-> "EndBlocker", err |-> "ok"]
    /\ \E id \in DOMAIN auctions :
          /\ auctions[id].type = "Batch"
          /\ auctions[id].status = "Vesting"
          /\ Len(auctions[id].end_times) = 2
          /\ auctions[id].max_extended_round = 2
          /\ Last(auctions[id].end_times) = blockTime - 1
          /\ lastMatchedLen[id] > 0

\* The entries of the auction's vesting queue that the step releases.
NewlyReleased(id) ==
    {i \in 1..Len(vestingQueues[id]) :
        ~vestingQueues[id][i].released /\ vestingQueues'[id][i].released}

\* C18: an entry of a vesting queue is released only by a sweep at or
\* after its release time; what leaves the vesting reserve in a step, and
\* reaches the auctioneer, is the paying coin of the entries the step
\* releases; a released entry stays as it is, so it is never paid again.
C18_VestingPaidOnce ==
    [][\A id \in DOMAIN auctions :
          Len(vestingQueues[id]) > 0 =>
             /\ Len(vestingQueues'[id]) = Len(vestingQueues[id])
             /\ \A i \in 1..Len(vestingQueues[id]) :
                   vestingQueues[id][i].released =>
                      vestingQueues'[id][i] = vestingQueues[id][i]
             /\ \A i \in NewlyReleased(id) :
                   /\ Ran("EndBlocker")
                   /\ vestingQueues[id][i].release_time <= blockTime
             /\ AmountOf(bank, VestingReserveAddress(id), PayingDenom)
                   - AmountOf(bank', VestingReserveAddress(id), PayingDenom) =
                   SumSeq([i \in 1..Len(vestingQueues[id]) |->
                             IF i \in NewlyReleased(id)
                             THEN vestingQueues[id][i].paying_amt ELSE 0])
             /\ AmountOf(bank', auctions[id].auctioneer, PayingDenom)
                   - AmountOf(bank, auctions[id].auctioneer, PayingDenom) =
                   AmountOf(bank, VestingReserveAddress(id), PayingDenom)
                   - AmountOf(bank', VestingReserveAddress(id), PayingDenom)]_vars

\* C18 happens: both entries of a vesting queue with proceeds are released,
\* and the auctioneer holds what they carried.
C18_Witness ==
    \E id \in DOMAIN auctions :
       /\ Len(vestingQueues[id]) = 2
       /\ vestingQueues[id][1].released
       /\ vestingQueues[id][2].released
       /\ vestingQueues[id][1].paying_amt > 0
       /\ AmountOf(bank, VestingReserveAddress(id), PayingDenom) = 0
       /\ AmountOf(bank, auctions[id].auctioneer, PayingDenom) =
             vestingQueues[id][1].paying_amt + vestingQueues[id][2].paying_amt

\* The bidder is named in the allowed bidders of the auction.
Listed(id, bidder) ==
    \E i \in 1..Len(auctions[id].allowed_bidders) :
       auctions[id].allowed_bidders[i].bidder = bidder

\* The step changes, in all the auctions, only the bidder's maximum bid
\* amount in the auction's allowed bidders, which becomes max.
OnlyMaxBidAmountSet(id, bidder, max) ==
    /\ DOMAIN auctions' = DOMAIN auctions
    /\ \A other \in DOMAIN auctions \ {id} : auctions'[other] = auctions[other]
    /\ [auctions'[id] EXCEPT !.allowed_bidders = auctions[id].allowed_bidders]
          = auctions[id]
    /\ Len(auctions'[id].allowed_bidders) = Len(auctions[id].allowed_bidders)
    /\ \A i \in 1..Len(auctions[id].allowed_bidders) :
          /\ auctions'[id].allowed_bidders[i].bidder =
                auctions[id].allowed_bidders[i].bidder
          /\ auctions'[id].allowed_bidders[i].max_bid_amount =
                IF auctions[id].allowed_bidders[i].bidder = bidder
                THEN max
                ELSE auctions[id].allowed_bidders[i].max_bid_amount

\* C19: UpdateAllowedBidder fails with NotFound for an unknown auction,
\* InvalidMaxBidAmount for a nil or non-positive amount, NotFound for a
\* bidder who is not listed, and a failure changes no auction; a success
\* changes only that bidder's maximum bid amount.  AddAllowedBidders with
\* an empty list fails with EmptyAllowedBidders and changes no auction.
C19_UpdateAllowedBidderFrame ==
    [][/\ Ran("UpdateAllowedBidder") =>
          \A id \in RequestIds, bidder \in Bidders :
             \A max \in MaxBidAmountInputs(bidder) :
                UpdateAllowedBidder(id, bidder, max) =>
                   /\ result'.err =
                         IF ~Found(id) THEN "ErrNotFound"
                         ELSE IF max.is_nil \/ max.amount <= 0
                         THEN "ErrInvalidMaxBidAmount"
                         ELSE IF ~Listed(id, bidder) THEN "ErrNotFound"
                         ELSE "ok"
                   /\ result'.err # "ok" => auctions' = auctions
                   /\ result'.err = "ok" =>
                         OnlyMaxBidAmountSet(id, bidder, max.amount)
       /\ Ran("AddAllowedBidders") =>
          \A id \in DOMAIN auctions :
             AddAllowedBidders(id, <<>>) =>
                /\ result'.err = "ErrEmptyAllowedBidders"
                /\ auctions' = auctions]_vars

\* C19 happens: an update has just succeeded on a list of two bidders,
\* raising one maximum bid amount and leaving the other.
C19_Witness ==
    /\ result = [op |-> "UpdateAllowedBidder", err |-> "ok"]
    /\ \E id \in DOMAIN auctions :
          /\ Len(auctions[id].allowed_bidders) = 2
          /\ auctions[id].allowed_bidders[1].bidder = User(2)
          /\ auctions[id].allowed_bidders[1].max_bid_amount = 3
          /\ auctions[id].allowed_bidders[2].bidder = User(3)
          /\ auctions[id].allowed_bidders[2].max_bid_amount = 2

\* A Started batch auction past its last end time: the sweep calls
\* FinishBatchAuction on it.
DueBatch(id) ==
    /\ auctions[id].type = "Batch"
    /\ auctions[id].status = "Started"
    /\ ShouldAuctionClosed(auctions[id], blockTime)

\* C20: a Started batch auction leaves Started, settled, after at most
\* max_extended_round extensions.  Every sweep that finds it due completes,
\* and either extends it, within max_extended_round extensions in all, or
\* takes it out of Started, settled; once max_extended_round extensions
\* are used the sweep takes it out of Started.  So it cannot be extended
\* for ever, whatever the matched lengths.
C20_BatchSettledWithinRounds ==
    [][\A id \in DOMAIN auctions :
          (Ran("EndBlocker") /\ DueBatch(id)) =>
             /\ result'.err = "ok"
             /\ Len(auctions'[id].end_times)
                   <= 1 + auctions[id].max_extended_round
             /\ auctions'[id].status # "Started" => settled'[id] >= 1
             /\ MaxRoundReached(auctions[id]) =>
                   auctions'[id].status # "Started"]_vars
====
